---- MODULE Spec2Model ----
(***************************************************************************)
(* Verification model of kerkathy/research:                                *)
(*   - qa_baseline/eval_qa.py          normalize_answer / exact_match      *)
(*   - qa_passage_combination/train_and_evaluate.py                        *)
(*                                      calculate_nll_loss,                *)
(*                                      inloop_extend_item, validate, main *)
(*   - my_nanoDPR/only_eval.py         inloop_extend_item, main            *)
(***************************************************************************)
EXTENDS Integers, Sequences, FiniteSets, TLC

(***************************************************************************)
(* Bounds                                                                  *)
(***************************************************************************)
MaxPredLen == 3
MaxTruthLen == 2
MaxThirdLen == 2
MaxK == 2
MaxRound == 2
MaxBatch == 2
MaxProcs == 2
MaxBatches == 3
MaxGAS == 2
MaxEpochs == 2
MaxEvalInterval == 2
MaxOnlyEvalInterval == 2
MaxOnlyEvalSteps == 4
MaxRanks == 3
MaxQuestions == 2
MaxComb == 2
MaxScore == 1
ProbBits == 1

VARIABLES
    \* ---- eval_qa.py: exact_match(prediction, ground_truth) ----
    prediction, ground_truth, em_result, em_pc,
    \* ---- one training / validation step of one process ----
    script,            \* "train_and_evaluate" or "only_eval"
    mode,              \* mode argument of inloop_extend_item
    k, max_round, empty_doc,       \* args.k, args.max_round, args.empty_doc
    num_processes,     \* accelerator.num_processes
    corpus_size, rot,  \* the question's corpus and its retrieval ranking
    num_pos,           \* per question: len(topk_positive_ids)
    q_idx,             \* position in raw_batch (1-based)
    data,              \* the list inloop_extend_item grows and returns
    grown,             \* the list before the root is removed
    visits,            \* <<index, round>> of every expansion made
    i_rnd, cur_visited, this_round_should_visited, next_round_should_visited,
    all_exact,
                           \* every retrieval so far returned as many ids as requested
    ext_sizes,         \* len() of each extended item of the batch
    st_pc, st_err,
    num_orig_question, n_comb, cossim_shape, lm_shape, docid_list_len,
    pick,              \* <<question, retrievers_pick[question]>>
    \* ---- train_and_evaluate.py: main ----
    tr_pc, tr_err,
    num_batches,       \* len(train_dataloader)
    gradient_accumulation_steps, max_train_epochs,
    EVAL_STEPS, resume_training, resume_steps,
    completed_steps, epoch, step,
    qe_mode, lm_mode,  \* module.training of query encoder / language model
    optimizer_params,  \* the modules whose parameters the optimizer holds
    qe_updates, lm_updates,        \* parameter updates applied so far
    backward_calls, optimizer_step_calls,
    last_loss,         \* the loss of the latest training batch
    evals,             \* validate() calls: step, encoder updates seen, result
    checkpoints,       \* checkpoint files written
    best_em,
    \* ---- only_eval.py: main ----
    oe_pc, oe_err,
    eval_steps, max_eval_steps,    \* args.eval_steps, args.max_eval_steps
    ckpt_files,        \* step -> completed_steps stored in checkpoint-step.pt
    oe_completed_steps,            \* the loop variable
    oe_loaded,         \* checkpoint whose state the query encoder holds
    oe_validated,      \* validate() calls: step, checkpoint loaded
    \* ---- train_and_evaluate.py: main, the processes of one launch ----
    sweep,             \* args.sweep
    ckpt_dir_exists,   \* os.path.exists of the sweep's CKPT_DIR
    world_size,        \* processes launched, all on one node
    sw_pc,             \* rank -> position in main
    data_loaded,       \* rank -> the train and dev data have been read
    sw_made,           \* os.makedirs(CKPT_DIR) has been called
    \* ---- train_and_evaluate.py: calculate_nll_loss ----
    doc_scores, seq_probs,         \* the arguments, [n_question][n_comb]
    doc_logprobs, seq_logprobs,    \* the locals of the same names
    nll_loss, nll_pc

emVars == <<prediction, ground_truth, em_result, em_pc>>
cfgVars == <<script, mode, k, max_round, empty_doc, num_processes,
             corpus_size, rot, num_pos>>
extVars == <<q_idx, data, grown, visits, i_rnd, cur_visited,
             this_round_should_visited, next_round_should_visited,
             all_exact, ext_sizes>>
shapeVars == <<num_orig_question, n_comb, cossim_shape, lm_shape,
               docid_list_len, pick>>
stVars == <<cfgVars, extVars, shapeVars, st_pc, st_err>>
trCfgVars == <<num_batches, gradient_accumulation_steps, max_train_epochs,
               EVAL_STEPS, resume_training, resume_steps>>
trVars == <<tr_pc, tr_err, trCfgVars, completed_steps, epoch, step, qe_mode,
            lm_mode, optimizer_params, qe_updates, lm_updates, backward_calls,
            optimizer_step_calls, last_loss, evals, checkpoints, best_em>>
oeVars == <<oe_pc, oe_err, eval_steps, max_eval_steps, ckpt_files,
            oe_completed_steps, oe_loaded, oe_validated>>
swVars == <<sweep, ckpt_dir_exists, world_size, sw_pc, data_loaded, sw_made>>
nllVars == <<doc_scores, seq_probs, doc_logprobs, seq_logprobs, nll_loss,
             nll_pc>>
vars == <<emVars, stVars, trVars, oeVars, swVars, nllVars>>

(***************************************************************************)
(* eval_qa.py : strings are sequences of one-character strings             *)
(***************************************************************************)
\* the characters the model feeds to normalize_answer: two lower-case
\* letters, one upper-case letter, white space and one ASCII punctuation mark
Alphabet == {"a", "n", "A", " ", "."}

\* string.punctuation restricted to the alphabet
Punctuation == {"."}

\* characters str.split() splits on
Whitespace == {" "}

\* \w of the regular expression engine
IsWordChar(ch) == ch \notin (Punctuation \cup Whitespace)

\* str.lower() on one character
LowerChar(ch) == IF ch = "A" THEN "a" ELSE ch

lower(text) == [i \in 1..Len(text) |-> LowerChar(text[i])]

remove_punc(text) == SelectSeq(text, LAMBDA ch : ch \notin Punctuation)

\* the alternatives of the pattern \b(a|an|the)\b, in the pattern's order
Articles == << <<"a">>, <<"a", "n">>, <<"t", "h", "e">> >>

\* does alternative w match text at position i, with \b on both sides
ArticleAt(text, i, w) ==
    /\ i + Len(w) - 1 <= Len(text)
    /\ \A j \in 1..Len(w) : text[i + j - 1] = w[j]
    /\ (i = 1 \/ ~IsWordChar(text[i - 1]))
    /\ (i + Len(w) > Len(text) \/ ~IsWordChar(text[i + Len(w)]))

\* length of the match of \b(a|an|the)\b at position i, 0 when none
MatchLen(text, i) ==
    IF \E n \in 1..Len(Articles) : ArticleAt(text, i, Articles[n])
    THEN Len(Articles[CHOOSE n \in 1..Len(Articles) :
                 /\ ArticleAt(text, i, Articles[n])
                 /\ \A m \in 1..(n - 1) : ~ArticleAt(text, i, Articles[m])])
    ELSE 0

RECURSIVE SubArticles(_, _)
\* re.sub scanning text from position i: a match becomes one blank
SubArticles(text, i) ==
    IF i > Len(text) THEN <<>>
    ELSE IF MatchLen(text, i) > 0
         THEN <<" ">> \o SubArticles(text, i + MatchLen(text, i))
         ELSE <<text[i]>> \o SubArticles(text, i + 1)

remove_articles(text) == SubArticles(text, 1)

RECURSIVE SplitJoin(_, _, _)
\* " ".join(text.split()): words separated by exactly one blank
SplitJoin(text, i, out) ==
    IF i > Len(text) THEN out
    ELSE IF text[i] \in Whitespace THEN SplitJoin(text, i + 1, out)
         ELSE IF i > 1 /\ text[i - 1] \in Whitespace /\ out # <<>>
              THEN SplitJoin(text, i + 1, out \o <<" ", text[i]>>)
              ELSE SplitJoin(text, i + 1, Append(out, text[i]))

\* a plausible slip: text.split(" ") keeps the empty words, and the join
\* puts every blank back
white_space_fix_split_blank(text) == text

white_space_fix(text) == SplitJoin(text, 1, <<>>)

\* a plausible slip: lower-casing applied last instead of first
normalize_answer_lower_last(s) ==
    lower(white_space_fix(remove_articles(remove_punc(s))))

normalize_answer(s) == white_space_fix(remove_articles(remove_punc(lower(s))))

exact_match(p, g) == normalize_answer(p) = normalize_answer(g)

RECURSIVE StringsOfLen(_)
StringsOfLen(n) ==
    IF n = 0 THEN {<<>>}
    ELSE {Append(s, ch) : s \in StringsOfLen(n - 1), ch \in Alphabet}

StringsUpTo(n) == UNION {StringsOfLen(m) : m \in 0..n}

EMStart ==
    /\ prediction \in StringsUpTo(MaxPredLen)
    /\ ground_truth \in StringsUpTo(MaxTruthLen)
    /\ em_result = FALSE
    /\ em_pc = "input"

EMIdle ==
    /\ prediction = <<>>
    /\ ground_truth = <<>>
    /\ em_result = FALSE
    /\ em_pc = "idle"

\* exact_match(prediction, ground_truth) is called
Compare ==
    /\ em_pc = "input"
    /\ em_result' = exact_match(prediction, ground_truth)
    /\ em_pc' = "compared"
    /\ UNCHANGED <<prediction, ground_truth, stVars, trVars, oeVars, swVars,
                   nllVars>>

\* the caller passes normalize_answer(prediction) instead of prediction
NormalizePrediction ==
    /\ em_pc = "compared"
    /\ prediction' = normalize_answer(prediction)
    /\ em_result' = exact_match(prediction', ground_truth)
    /\ em_pc' = "renormalized"
    /\ UNCHANGED <<ground_truth, stVars, trVars, oeVars, swVars, nllVars>>

\* the caller passes normalize_answer(ground_truth) instead of ground_truth
NormalizeTruth ==
    /\ em_pc = "compared"
    /\ ground_truth' = normalize_answer(ground_truth)
    /\ em_result' = exact_match(prediction, ground_truth')
    /\ em_pc' = "renormalized"
    /\ UNCHANGED <<prediction, stVars, trVars, oeVars, swVars, nllVars>>

\* the caller exchanges the two arguments
SwapArguments ==
    /\ em_pc = "compared"
    /\ prediction' = ground_truth
    /\ ground_truth' = prediction
    /\ em_result' = exact_match(prediction', ground_truth')
    /\ em_pc' = "swapped"
    /\ UNCHANGED <<stVars, trVars, oeVars, swVars, nllVars>>

EMNext == Compare \/ NormalizePrediction \/ NormalizeTruth \/ SwapArguments

(***************************************************************************)
(* inloop_extend_item (train_and_evaluate.py and only_eval.py)             *)
(***************************************************************************)
\* the "no document" entry of the initial item: [-1] / [""]
NoDoc == -1

\* size of the largest corpus of one question
NumDocs == MaxK + MaxRound

Range(f) == {f[i] : i \in DOMAIN f}

Min(a, b) == IF a < b THEN a ELSE b

RECURSIVE Pow(_, _)
Pow(b, e) == IF e = 0 THEN 1 ELSE b * Pow(b, e - 1)

RECURSIVE GeomSum(_, _)
\* sum([args.k ** i for i in range(args.max_round + 1)])
GeomSum(kk, r) == IF r = 0 THEN 1 ELSE Pow(kk, r) + GeomSum(kk, r - 1)

RECURSIVE SumSeq(_)
SumSeq(q) == IF q = <<>> THEN 0 ELSE Head(q) + SumSeq(Tail(q))

\* the ids of the question's corpus ranked for a query whose last document
\* is `last`, best first
Ranking(last) ==
    [i \in 1..corpus_size |-> (rot + last + i) % corpus_size]

\* retrieve_top_k_docid(query, doc_embeddings, ..., n, ids_to_exclude):
\* the n best ids that are not excluded, fewer when the corpus runs out
retrieve_top_k_docid(last, n, ids_to_exclude) ==
    LET allowed == SelectSeq(Ranking(last),
                             LAMBDA d : d \notin Range(ids_to_exclude))
    IN  SubSeq(allowed, 1, Min(n, Len(allowed)))

\* topk_positive_ids of question q
TopkPositiveIds(q) ==
    IF mode = "train" THEN [i \in 1..num_pos[q] |-> i - 1] ELSE <<>>

\* the ids requested from and returned by the retrieval call of one visit
Requested(q) ==
    IF script = "only_eval" THEN k ELSE k - Len(TopkPositiveIds(q))

Retrieved(q, docid_list) ==
    IF script = "only_eval"
    THEN retrieve_top_k_docid(docid_list[Len(docid_list)], k, <<>>)
    ELSE retrieve_top_k_docid(docid_list[Len(docid_list)], Requested(q),
                              docid_list \o TopkPositiveIds(q))

\* new_docid_list / new_doc_list of one retrieved id
NewDocidList(docid_list, docid) ==
    IF script = "only_eval" THEN Append(docid_list, docid)
    ELSE IF docid_list # <<NoDoc>> THEN Append(docid_list, docid)
         ELSE <<docid>>

\* the `continue` of the append loop
Discarded(new_docid_list) ==
    /\ script = "train_and_evaluate"
    /\ Cardinality(Range(new_docid_list)) = 1
    /\ Len(new_docid_list) > 1

RECURSIVE AppendChildren(_, _, _, _)
\* for docid in doc_ids + topk_positive_ids: ... data.append(...)
AppendChildren(lst, parent, ids, rnd) ==
    IF ids = <<>> THEN lst
    ELSE LET new == NewDocidList(lst[parent].docs, Head(ids))
         IN  IF Discarded(new)
             THEN AppendChildren(lst, parent, Tail(ids), rnd)
             ELSE AppendChildren(
                      Append(lst, [docs |-> new, rnd |-> rnd, parent |-> parent]),
                      parent, Tail(ids), rnd)

\* a plausible slip: only the first entry of the list is compared
IsRootItem_first_entry(x) == x.docs[1] = NoDoc

\* the test of the final list comprehension: x[1] != [-1] / x[1] != [""]
IsRootItem(x) == x.docs = <<NoDoc>>

RootItem == [docs |-> <<NoDoc>>, rnd |-> -1, parent |-> 0]

Scripts == {"train_and_evaluate", "only_eval"}

StepStart ==
    /\ script \in Scripts
    /\ mode \in {"train", "eval"}
    /\ script = "only_eval" => mode = "eval"
    /\ k \in 1..MaxK
    /\ max_round \in 0..MaxRound
    /\ empty_doc \in BOOLEAN
    /\ num_processes \in 1..MaxProcs
    /\ corpus_size \in 1..NumDocs
    /\ rot \in 0..(corpus_size - 1)
    /\ \E b \in 1..MaxBatch :
           num_pos \in [1..b -> 0..Min(k, corpus_size)]
    /\ mode = "eval" => \A q \in DOMAIN num_pos : num_pos[q] = 0
    /\ q_idx = 1
    /\ data = <<>>
    /\ grown = <<>>
    /\ visits = <<>>
    /\ i_rnd = 0
    /\ cur_visited = 0
    /\ this_round_should_visited = 0
    /\ next_round_should_visited = 0
    /\ all_exact = TRUE
    /\ ext_sizes = <<>>
    /\ st_pc = "item"
    /\ st_err = "none"
    /\ num_orig_question = 0
    /\ n_comb = 0
    /\ cossim_shape = <<0, 0>>
    /\ lm_shape = <<0, 0>>
    /\ docid_list_len = 0
    /\ pick = <<0, 0>>

StepIdle ==
    /\ script = "train_and_evaluate"
    /\ mode = "eval"
    /\ k = 1
    /\ max_round = 0
    /\ empty_doc = TRUE
    /\ num_processes = 1
    /\ corpus_size = 1
    /\ rot = 0
    /\ num_pos = <<0>>
    /\ q_idx = 1
    /\ data = <<>>
    /\ grown = <<>>
    /\ visits = <<>>
    /\ i_rnd = 0
    /\ cur_visited = 0
    /\ this_round_should_visited = 0
    /\ next_round_should_visited = 0
    /\ all_exact = TRUE
    /\ ext_sizes = <<>>
    /\ st_pc = "idle"
    /\ st_err = "none"
    /\ num_orig_question = 0
    /\ n_comb = 0
    /\ cossim_shape = <<0, 0>>
    /\ lm_shape = <<0, 0>>
    /\ docid_list_len = 0
    /\ pick = <<0, 0>>

\* inloop_extend_item is entered for raw_batch[q_idx]: data = [qa_pair]
BeginItem ==
    /\ st_pc = "item"
    /\ data' = <<RootItem>>
    /\ grown' = <<>>
    /\ visits' = <<>>
    /\ cur_visited' = 0
    /\ this_round_should_visited' = 0
    /\ next_round_should_visited' = 1
    /\ i_rnd' = 0
    /\ st_pc' = "for"
    /\ UNCHANGED <<q_idx, all_exact, ext_sizes, cfgVars, shapeVars, st_err,
                   emVars, trVars, oeVars, swVars, nllVars>>

\* a plausible slip: the next-round counter is not reset
ForRound_no_reset ==
    /\ st_pc = "for"
    /\ i_rnd < max_round
    /\ this_round_should_visited' = next_round_should_visited
    /\ next_round_should_visited' = next_round_should_visited
    /\ cur_visited' = 0
    /\ st_pc' = "while"
    /\ UNCHANGED <<q_idx, data, grown, visits, i_rnd, all_exact, ext_sizes,
                   cfgVars, shapeVars, st_err, emVars, trVars, oeVars,
                   swVars, nllVars>>

\* for i_rnd in range(args.max_round): update the pointers
ForRound ==
    /\ st_pc = "for"
    /\ i_rnd < max_round
    /\ this_round_should_visited' = next_round_should_visited
    /\ next_round_should_visited' = 0
    /\ cur_visited' = 0
    /\ st_pc' = "while"
    /\ UNCHANGED <<q_idx, data, grown, visits, i_rnd, all_exact, ext_sizes,
                   cfgVars, shapeVars, st_err, emVars, trVars, oeVars,
                   swVars, nllVars>>

\* one iteration of `while cur_visited < this_round_should_visited`
Visit ==
    /\ st_pc = "while"
    /\ cur_visited < this_round_should_visited
    /\ LET docid_list == data[cur_visited + 1].docs
           doc_ids == Retrieved(q_idx, docid_list)
           newdata == AppendChildren(data, cur_visited + 1,
                                     doc_ids \o TopkPositiveIds(q_idx), i_rnd)
       IN  /\ data' = newdata
           /\ next_round_should_visited' =
                  next_round_should_visited + (Len(newdata) - Len(data))
           /\ all_exact' = (all_exact /\ Len(doc_ids) = Requested(q_idx))
    /\ visits' = Append(visits, <<cur_visited + 1, i_rnd>>)
    /\ cur_visited' = cur_visited + 1
    /\ UNCHANGED <<q_idx, grown, i_rnd, this_round_should_visited, ext_sizes,
                   st_pc, cfgVars, shapeVars, st_err, emVars, trVars, oeVars,
                   swVars, nllVars>>

\* the while loop ends, the for loop goes to its next round
EndWhile ==
    /\ st_pc = "while"
    /\ cur_visited >= this_round_should_visited
    /\ i_rnd' = i_rnd + 1
    /\ st_pc' = "for"
    /\ UNCHANGED <<q_idx, data, grown, visits, cur_visited,
                   this_round_should_visited, next_round_should_visited,
                   all_exact, ext_sizes, cfgVars, shapeVars, st_err, emVars,
                   trVars, oeVars, swVars, nllVars>>

\* after the rounds: remove the no-document item unless args.empty_doc,
\* assert that exactly one item went away, return data
FinishItem ==
    /\ st_pc = "for"
    /\ i_rnd >= max_round
    /\ grown' = data
    /\ LET kept == SelectSeq(data, LAMBDA x : ~IsRootItem(x))
       IN  IF empty_doc
           THEN /\ data' = data
                /\ ext_sizes' = Append(ext_sizes, Len(data))
                /\ st_pc' = "returned"
                /\ st_err' = st_err
           ELSE IF Len(data) = Len(kept) + 1
                THEN /\ data' = kept
                     /\ ext_sizes' = Append(ext_sizes, Len(kept))
                     /\ st_pc' = "returned"
                     /\ st_err' = st_err
                ELSE /\ data' = kept
                     /\ ext_sizes' = ext_sizes
                     /\ st_pc' = "error"
                     /\ st_err' = "AssertionError: num_data_before_remove"
    /\ UNCHANGED <<q_idx, visits, i_rnd, cur_visited,
                   this_round_should_visited, next_round_should_visited,
                   all_exact, cfgVars, shapeVars, emVars, trVars, oeVars,
                   swVars, nllVars>>

\* the list comprehension over raw_batch moves to the next question
NextItem ==
    /\ st_pc = "returned"
    /\ IF q_idx < Len(num_pos)
       THEN /\ q_idx' = q_idx + 1
            /\ st_pc' = "item"
       ELSE /\ q_idx' = q_idx
            /\ st_pc' = "collate"
    /\ UNCHANGED <<data, grown, visits, i_rnd, cur_visited,
                   this_round_should_visited, next_round_should_visited,
                   all_exact, ext_sizes, cfgVars, shapeVars, st_err, emVars,
                   trVars, oeVars, swVars, nllVars>>

(***************************************************************************)
(* inloop_collate_fn and the score computation of validate / main          *)
(***************************************************************************)
\* len([x for i, x in enumerate(samples) if i % n == 0]) for len(samples) = bs
EveryNth(bs, n) == (bs + n - 1) \div n

\* inloop_collate_fn(samples=extended_batch, ...): flatten, stack, and in
\* eval mode pick the full answers of every n_comb-th sample
Collate ==
    /\ st_pc = "collate"
    /\ LET bs == SumSeq(ext_sizes)
           nq == Len(ext_sizes)
       IN  /\ docid_list_len' = bs
           /\ IF bs = 0
              THEN /\ st_pc' = "error"
                   /\ st_err' = "RuntimeError: stack of an empty list"
              ELSE IF mode = "eval" /\ bs \div nq = 0
              THEN /\ st_pc' = "error"
                   /\ st_err' = "ZeroDivisionError: i % n_comb"
              ELSE IF mode = "eval" /\ EveryNth(bs, bs \div nq) # nq
              THEN /\ st_pc' = "error"
                   /\ st_err' = "AssertionError: len(full_answers)"
              ELSE /\ st_pc' = "forward"
                   /\ st_err' = st_err
    /\ UNCHANGED <<extVars, cfgVars, num_orig_question, n_comb, cossim_shape,
                   lm_shape, pick, emVars, trVars, oeVars, swVars, nllVars>>

\* rows of query_embedding / doc_embedding after the all_gather
GatheredRows(local) ==
    IF num_processes > 1 THEN num_processes * local ELSE local

\* the divisor of single_device_query_num
PerQuestion ==
    IF empty_doc THEN GeomSum(k, max_round) ELSE GeomSum(k, max_round) - 1

\* shape of the tensor get_lm_prob / get_t5_lm_prob returns for the local
\* prompt_ans_lm_inputs and num_orig_question
LmProbShape(local, noq) == <<noq, local \div noq>>

\* query encoder forward, all_gather, retriever_cossim.view(num_orig_question,
\* -1), n_comb, lm_prob
Scores ==
    /\ st_pc = "forward"
    /\ LET single_device_query_num == docid_list_len
           rows == GatheredRows(single_device_query_num)
           noq == single_device_query_num \div PerQuestion
       IN  IF PerQuestion = 0
           THEN /\ st_pc' = "error"
                /\ st_err' = "ZeroDivisionError: num_orig_question"
                /\ UNCHANGED <<num_orig_question, n_comb, cossim_shape,
                               lm_shape>>
           ELSE IF noq = 0
           THEN /\ st_pc' = "error"
                /\ st_err' = "ZeroDivisionError: n_comb"
                /\ num_orig_question' = noq
                /\ UNCHANGED <<n_comb, cossim_shape, lm_shape>>
           ELSE IF rows % noq # 0 \/ single_device_query_num % noq # 0
           THEN /\ st_pc' = "error"
                /\ st_err' = "RuntimeError: view"
                /\ num_orig_question' = noq
                /\ n_comb' = single_device_query_num \div noq
                /\ UNCHANGED <<cossim_shape, lm_shape>>
           ELSE /\ st_pc' = "scored"
                /\ st_err' = st_err
                /\ num_orig_question' = noq
                /\ n_comb' = single_device_query_num \div noq
                /\ cossim_shape' = <<noq, rows \div noq>>
                /\ lm_shape' = LmProbShape(single_device_query_num, noq)
    /\ UNCHANGED <<extVars, cfgVars, docid_list_len, pick, emVars, trVars,
                   oeVars, swVars, nllVars>>

\* validate: retrievers_pick = argmax(retriever_cossim, dim=1) for one
\* question, then lm_prob[i][pick] and docid_list[i * n_comb + pick]
Pick ==
    /\ st_pc = "scored"
    /\ mode = "eval"
    /\ \E i \in 0..(cossim_shape[1] - 1), c \in 0..(cossim_shape[2] - 1) :
           /\ pick' = <<i, c>>
           /\ IF c >= lm_shape[2]
              THEN /\ st_pc' = "error"
                   /\ st_err' = "IndexError: lm_prob"
              ELSE IF script = "train_and_evaluate"
                      /\ i * n_comb + c >= docid_list_len
              THEN /\ st_pc' = "error"
                   /\ st_err' = "IndexError: docid_list"
              ELSE /\ st_pc' = "picked"
                   /\ st_err' = st_err
    /\ UNCHANGED <<extVars, cfgVars, num_orig_question, n_comb, cossim_shape,
                   lm_shape, docid_list_len, emVars, trVars, oeVars, swVars, nllVars>>

\* main: the loss is computed from retriever_cossim and lm_prob
Loss ==
    /\ st_pc = "scored"
    /\ mode = "train"
    /\ IF cossim_shape = lm_shape \/ lm_shape[2] = 1
       THEN /\ st_pc' = "loss"
            /\ st_err' = st_err
       ELSE /\ st_pc' = "error"
            /\ st_err' = "RuntimeError: tensor sizes must match"
    /\ UNCHANGED <<extVars, cfgVars, shapeVars, emVars, trVars, oeVars,
                   swVars, nllVars>>

StepNext ==
    \/ BeginItem \/ ForRound \/ Visit \/ EndWhile \/ FinishItem \/ NextItem
    \/ Collate \/ Scores \/ Pick \/ Loss

(***************************************************************************)
(* train_and_evaluate.py : main                                            *)
(***************************************************************************)
\* the values a loss can take, as far as the check of line 957 tells them apart
LossKinds == {"finite", "nan", "inf", "-inf"}

\* the values of eval_result["exact_match (%)"] told apart: a lower and a
\* higher score
ExactMatchValues == {0, 1}

\* a plausible slip: only NaN is tested
LossIsBad_nan_only(loss) == loss = "nan"

\* loss == float("inf") or loss == float("-inf") or torch.isnan(loss)
LossIsBad(loss) == loss = "inf" \/ loss = "-inf" \/ loss = "nan"

\* a plausible slip: the optimizer is built over every loaded model
OptimizerGroupedParameters_all == {"query_encoder", "language_model"}

\* optimizer_grouped_parameters: both groups list query_encoder parameters
OptimizerGroupedParameters == {"query_encoder"}

NUM_UPDATES_PER_EPOCH ==
    (num_batches + gradient_accumulation_steps - 1)
        \div gradient_accumulation_steps

MAX_TRAIN_STEPS == NUM_UPDATES_PER_EPOCH * max_train_epochs

MAX_TRAIN_EPOCHS ==
    (MAX_TRAIN_STEPS + NUM_UPDATES_PER_EPOCH - 1) \div NUM_UPDATES_PER_EPOCH

\* a plausible slip: the synchronisation at the end of the dataloader is
\* forgotten
SyncGradients_no_end(st) == (st + 1) % gradient_accumulation_steps = 0

\* accelerator.sync_gradients inside accelerator.accumulate for batch st
\* (0-based) of the epoch: every gradient_accumulation_steps-th batch and
\* the last batch of the dataloader
SyncGradients(st) ==
    \/ (st + 1) % gradient_accumulation_steps = 0
    \/ st + 1 = num_batches

\* a plausible slip: the evaluation at the last step is forgotten
ShouldEvaluate_interval_only(cs) == cs % EVAL_STEPS = 0

\* completed_steps % EVAL_STEPS == 0 or completed_steps == MAX_TRAIN_STEPS
ShouldEvaluate(cs) == cs % EVAL_STEPS = 0 \/ cs = MAX_TRAIN_STEPS

\* what one validate() call leaves behind: the step it was logged at, the
\* number of updates the query encoder had received, the exact match
EvalRecord(cs, em) == [step |-> cs, updates |-> qe_updates, em |-> em]

TrainStart ==
    /\ tr_pc = "start"
    /\ tr_err = "none"
    /\ num_batches \in 1..MaxBatches
    /\ gradient_accumulation_steps \in 1..MaxGAS
    /\ max_train_epochs \in 1..MaxEpochs
    /\ EVAL_STEPS \in 0..MaxEvalInterval
    /\ resume_training \in BOOLEAN
    /\ resume_steps \in (IF resume_training THEN 1..MaxBatches ELSE {0})
    /\ completed_steps = 0
    /\ epoch = 0
    /\ step = 0
    /\ qe_mode = "unloaded"
    /\ lm_mode = "unloaded"
    /\ optimizer_params = {}
    /\ qe_updates = 0
    /\ lm_updates = 0
    /\ backward_calls = 0
    /\ optimizer_step_calls = 0
    /\ last_loss = "none"
    /\ evals = <<>>
    /\ checkpoints = <<>>
    /\ best_em = -1

TrainIdle ==
    /\ tr_pc = "idle"
    /\ tr_err = "none"
    /\ num_batches = 1
    /\ gradient_accumulation_steps = 1
    /\ max_train_epochs = 1
    /\ EVAL_STEPS = 1
    /\ resume_training = FALSE
    /\ resume_steps = 0
    /\ completed_steps = 0
    /\ epoch = 0
    /\ step = 0
    /\ qe_mode = "unloaded"
    /\ lm_mode = "unloaded"
    /\ optimizer_params = {}
    /\ qe_updates = 0
    /\ lm_updates = 0
    /\ backward_calls = 0
    /\ optimizer_step_calls = 0
    /\ last_loss = "none"
    /\ evals = <<>>
    /\ checkpoints = <<>>
    /\ best_em = -1

\* main up to `completed_steps = 0`: the models are loaded, the language
\* model is put in eval mode, the optimizer is built, EVAL_STEPS is checked
Setup ==
    /\ tr_pc = "start"
    /\ \E m \in {"train", "eval"} : qe_mode' = m
    /\ lm_mode' = "eval"
    /\ optimizer_params' = OptimizerGroupedParameters
    /\ completed_steps' = 0
    /\ IF EVAL_STEPS = 0
       THEN /\ tr_pc' = "error"
            /\ tr_err' = "ValueError: EVAL_STEPS is 0"
       ELSE /\ tr_pc' = "loaded"
            /\ tr_err' = tr_err
    /\ UNCHANGED <<trCfgVars, epoch, step, qe_updates, lm_updates,
                   backward_calls, optimizer_step_calls, last_loss, evals,
                   checkpoints, best_em, emVars, stVars, oeVars, swVars, nllVars>>

\* args.resume_training: the state dict is loaded, then best_em is read from
\* eval_result, which only the other branch assigns
Resume ==
    /\ tr_pc = "loaded"
    /\ resume_training
    /\ completed_steps' = resume_steps
    /\ qe_updates' = resume_steps
    /\ tr_pc' = "error"
    /\ tr_err' = "UnboundLocalError: eval_result"
    /\ UNCHANGED <<trCfgVars, epoch, step, qe_mode, lm_mode, optimizer_params,
                   lm_updates, backward_calls, optimizer_step_calls, last_loss,
                   evals, checkpoints, best_em, emVars, stVars, oeVars, swVars, nllVars>>

\* the 0 step evaluation of a run that does not resume
ZeroStepEval ==
    /\ tr_pc = "loaded"
    /\ ~resume_training
    /\ \E em \in ExactMatchValues :
           /\ evals' = Append(evals, EvalRecord(completed_steps, em))
           /\ best_em' = em
    /\ qe_mode' = "eval"
    /\ lm_mode' = "eval"
    /\ epoch' = 0
    /\ step' = 0
    /\ tr_pc' = "train"
    /\ UNCHANGED <<tr_err, trCfgVars, completed_steps, optimizer_params,
                   qe_updates, lm_updates, backward_calls,
                   optimizer_step_calls, last_loss, checkpoints,
                   emVars, stVars, oeVars, swVars, nllVars>>

\* one iteration of `for step, raw_batch in enumerate(train_dataloader)`
TrainBatch ==
    /\ tr_pc = "train"
    /\ \E loss \in LossKinds, em \in ExactMatchValues :
        /\ last_loss' = loss
        /\ qe_mode' = "train"
        /\ IF LossIsBad(loss)
           THEN /\ tr_pc' = "error"
                /\ tr_err' = "ValueError: Loss is Nan"
                /\ UNCHANGED <<completed_steps, epoch, step, lm_mode,
                               qe_updates, lm_updates, backward_calls,
                               optimizer_step_calls, evals, checkpoints,
                               best_em>>
           ELSE LET sync == SyncGradients(step)
                    cs == IF sync THEN completed_steps + 1 ELSE completed_steps
                    doeval == sync /\ ShouldEvaluate(cs)
                    lastbatch == step + 1 = num_batches
                IN  /\ backward_calls' = backward_calls + 1
                    /\ completed_steps' = cs
                    /\ evals' = IF doeval THEN Append(evals, EvalRecord(cs, em))
                                ELSE evals
                    /\ lm_mode' = IF doeval THEN "eval" ELSE lm_mode
                    /\ best_em' = IF doeval /\ em > best_em THEN em ELSE best_em
                    /\ checkpoints' =
                           IF doeval THEN Append(checkpoints, EvalRecord(cs, em))
                           ELSE checkpoints
                    /\ optimizer_step_calls' = optimizer_step_calls + 1
                    /\ qe_updates' =
                           IF sync /\ "query_encoder" \in optimizer_params
                           THEN qe_updates + 1 ELSE qe_updates
                    /\ lm_updates' =
                           IF sync /\ "language_model" \in optimizer_params
                           THEN lm_updates + 1 ELSE lm_updates
                    /\ step' = IF lastbatch THEN 0 ELSE step + 1
                    /\ epoch' = IF lastbatch THEN epoch + 1 ELSE epoch
                    /\ tr_pc' = IF lastbatch /\ epoch + 1 = MAX_TRAIN_EPOCHS
                                THEN "finished" ELSE "train"
                    /\ tr_err' = tr_err
    /\ UNCHANGED <<trCfgVars, optimizer_params, emVars, stVars, oeVars,
                   swVars, nllVars>>

\* after the loops: accelerator.end_training()
EndTraining ==
    /\ tr_pc = "finished"
    /\ tr_pc' = "done"
    /\ UNCHANGED <<tr_err, trCfgVars, completed_steps, epoch, step, qe_mode,
                   lm_mode, optimizer_params, qe_updates, lm_updates,
                   backward_calls, optimizer_step_calls, last_loss, evals,
                   checkpoints, best_em, emVars, stVars, oeVars, swVars, nllVars>>

TrainNext == Setup \/ Resume \/ ZeroStepEval \/ TrainBatch \/ EndTraining

(***************************************************************************)
(* only_eval.py : main                                                     *)
(***************************************************************************)
\* a plausible slip: the stop of the commented-out range(0, MAX, EVAL)
RangeStop_exclusive == max_eval_steps

\* the stop of range(0, args.max_eval_steps + 1, args.eval_steps)
RangeStop == max_eval_steps + 1

\* the checkpoint steps a run can ask for
CkptSteps == 1..(MaxOnlyEvalSteps + MaxOnlyEvalInterval)

OnlyEvalStart ==
    /\ oe_pc = "start"
    /\ oe_err = "none"
    /\ eval_steps \in 1..MaxOnlyEvalInterval
    /\ max_eval_steps \in 0..MaxOnlyEvalSteps
    /\ \E missing \in CkptSteps \cup {0}, wrong \in CkptSteps \cup {0},
          stored \in CkptSteps :
           ckpt_files = [s \in CkptSteps |->
                            IF s = missing THEN 0
                            ELSE IF s = wrong THEN stored ELSE s]
    /\ oe_completed_steps = 0
    /\ oe_loaded = 0
    /\ oe_validated = <<>>

OnlyEvalIdle ==
    /\ oe_pc = "idle"
    /\ oe_err = "none"
    /\ eval_steps = 1
    /\ max_eval_steps = 0
    /\ ckpt_files = [s \in CkptSteps |-> s]
    /\ oe_completed_steps = 0
    /\ oe_loaded = 0
    /\ oe_validated = <<>>

\* checkpoint-s.pt exists (0 stands for a file that is not there)
CkptExists(s) == ckpt_files[s] # 0

\* main up to the evaluation loop: the first checkpoint must exist
CheckFirstCkpt ==
    /\ oe_pc = "start"
    /\ IF CkptExists(eval_steps)
       THEN /\ oe_pc' = "loop"
            /\ oe_err' = oe_err
       ELSE /\ oe_pc' = "error"
            /\ oe_err' = "AssertionError: first checkpoint"
    /\ oe_completed_steps' = 0
    /\ UNCHANGED <<eval_steps, max_eval_steps, ckpt_files, oe_loaded,
                   oe_validated, emVars, stVars, trVars, swVars, nllVars>>

\* one iteration of the loop over completed_steps
EvalIteration ==
    /\ oe_pc = "loop"
    /\ oe_completed_steps < RangeStop
    /\ IF oe_completed_steps > 0 /\ ~CkptExists(oe_completed_steps)
       THEN /\ oe_pc' = "error"
            /\ oe_err' = "FileNotFoundError: checkpoint"
            /\ UNCHANGED <<oe_loaded, oe_validated, oe_completed_steps>>
       ELSE IF oe_completed_steps > 0
               /\ ckpt_files[oe_completed_steps] # oe_completed_steps
       THEN /\ oe_pc' = "error"
            /\ oe_err' = "AssertionError: loaded_completed_steps"
            /\ oe_loaded' = oe_completed_steps
            /\ UNCHANGED <<oe_validated, oe_completed_steps>>
       ELSE /\ oe_loaded' = IF oe_completed_steps > 0
                            THEN oe_completed_steps ELSE oe_loaded
            /\ oe_validated' =
                   Append(oe_validated,
                          [step |-> oe_completed_steps, loaded |-> oe_loaded'])
            /\ oe_completed_steps' = oe_completed_steps + eval_steps
            /\ oe_pc' = oe_pc
            /\ oe_err' = oe_err
    /\ UNCHANGED <<eval_steps, max_eval_steps, ckpt_files,
                   emVars, stVars, trVars, swVars, nllVars>>

\* the range is exhausted
OnlyEvalFinish ==
    /\ oe_pc = "loop"
    /\ oe_completed_steps >= RangeStop
    /\ oe_pc' = "done"
    /\ UNCHANGED <<oe_err, eval_steps, max_eval_steps, ckpt_files,
                   oe_completed_steps, oe_loaded, oe_validated,
                   emVars, stVars, trVars, swVars, nllVars>>

OnlyEvalNext == CheckFirstCkpt \/ EvalIteration \/ OnlyEvalFinish

(***************************************************************************)
(* train_and_evaluate.py : main, the start of a launch of several ranks    *)
(***************************************************************************)
\* the module-level flag of line 45
debug == FALSE

Ranks == 0..(MaxRanks - 1)

\* accelerator.is_local_main_process, all ranks being on one node
IsLocalMainProcess(p) == p = 0

SweepStart ==
    /\ sweep \in BOOLEAN
    /\ ckpt_dir_exists \in BOOLEAN
    /\ world_size \in 1..MaxRanks
    /\ sw_pc = [p \in Ranks |-> IF p < world_size THEN "start" ELSE "absent"]
    /\ data_loaded = [p \in Ranks |-> FALSE]
    /\ sw_made = FALSE

SweepIdle ==
    /\ sweep = FALSE
    /\ ckpt_dir_exists = FALSE
    /\ world_size = 1
    /\ sw_pc = [p \in Ranks |-> "absent"]
    /\ data_loaded = [p \in Ranks |-> FALSE]
    /\ sw_made = FALSE

\* lines 589-627 on rank p: the local main process names CKPT_DIR, returns
\* when a sweep finds it, and makes it otherwise; every other rank takes the
\* else branch
CheckCkptDir(p) ==
    /\ sw_pc[p] = "start"
    /\ IF ~debug /\ IsLocalMainProcess(p)
       THEN IF sweep /\ ckpt_dir_exists
            THEN /\ sw_pc' = [sw_pc EXCEPT ![p] = "returned"]
                 /\ UNCHANGED <<ckpt_dir_exists, sw_made>>
            ELSE /\ sw_pc' = [sw_pc EXCEPT ![p] = "dirs"]
                 /\ ckpt_dir_exists' = (sweep \/ ckpt_dir_exists)
                 /\ sw_made' = TRUE
       ELSE /\ sw_pc' = [sw_pc EXCEPT ![p] = "dirs"]
            /\ UNCHANGED <<ckpt_dir_exists, sw_made>>
    /\ UNCHANGED <<sweep, world_size, data_loaded, emVars, stVars, trVars,
                   oeVars, nllVars>>

\* lines 630-649 on rank p: query encoder and language model are loaded
LoadModels(p) ==
    /\ sw_pc[p] = "dirs"
    /\ sw_pc' = [sw_pc EXCEPT ![p] = "models"]
    /\ UNCHANGED <<sweep, ckpt_dir_exists, world_size, data_loaded, sw_made,
                   emVars, stVars, trVars, oeVars, nllVars>>

\* lines 651-768 on rank p: the data and the embeddings are read; the rank
\* then enters accelerator.prepare(query_encoder)
LoadData(p) ==
    /\ sw_pc[p] = "models"
    /\ data_loaded' = [data_loaded EXCEPT ![p] = TRUE]
    /\ sw_pc' = [sw_pc EXCEPT ![p] = "at_prepare"]
    /\ UNCHANGED <<sweep, ckpt_dir_exists, world_size, sw_made,
                   emVars, stVars, trVars, oeVars, nllVars>>

\* line 770: wrapping the query encoder for distributed training is a
\* collective operation, which completes once every rank of the launch has
\* entered it
PrepareCollective ==
    /\ \A p \in Ranks : p < world_size => sw_pc[p] = "at_prepare"
    /\ sw_pc' = [p \in Ranks |-> IF p < world_size THEN "training" ELSE sw_pc[p]]
    /\ UNCHANGED <<sweep, ckpt_dir_exists, world_size, data_loaded, sw_made,
                   emVars, stVars, trVars, oeVars, nllVars>>

\* lines 771-1037 on rank p: the rest of main
TrainToEnd(p) ==
    /\ sw_pc[p] = "training"
    /\ sw_pc' = [sw_pc EXCEPT ![p] = "done"]
    /\ UNCHANGED <<sweep, ckpt_dir_exists, world_size, data_loaded, sw_made,
                   emVars, stVars, trVars, oeVars, nllVars>>

SweepNext ==
    \/ \E p \in Ranks : CheckCkptDir(p)
    \/ \E p \in Ranks : LoadModels(p)
    \/ \E p \in Ranks : LoadData(p)
    \/ PrepareCollective
    \/ \E p \in Ranks : TrainToEnd(p)

(***************************************************************************)
(* train_and_evaluate.py : calculate_nll_loss                              *)
(* Floating-point values are integers: logarithms are taken to base 2 and  *)
(* rounded down, finite values lie in -FloatMax..FloatMax, and a result    *)
(* beyond the largest finite value overflows to an infinity.               *)
(***************************************************************************)
\* the largest finite value of the format: torch.finfo(dtype).max, whose
\* negation is torch.finfo(dtype).min
FloatMax == 64

\* half the distance between the two largest finite values: a result within
\* it of FloatMax rounds to FloatMax, a result beyond it overflows
HalfUlp == FloatMax \div 8

PosInf == FloatMax + FloatMax
NegInf == -PosInf
NaN == PosInf + 1

IsFinite(x) == x \in (-FloatMax)..FloatMax

\* the representable value of an exact result
RoundFloat(x) ==
    IF x >= FloatMax + HalfUlp THEN PosInf
    ELSE IF x <= -(FloatMax + HalfUlp) THEN NegInf
    ELSE IF x > FloatMax THEN FloatMax
    ELSE IF x < -FloatMax THEN -FloatMax
    ELSE x

\* a + b in floating point
FAdd(a, b) ==
    IF a = NaN \/ b = NaN THEN NaN
    ELSE IF a \in {PosInf, NegInf} \/ b \in {PosInf, NegInf}
         THEN IF {a, b} = {PosInf, NegInf} THEN NaN
              ELSE IF PosInf \in {a, b} THEN PosInf ELSE NegInf
         ELSE RoundFloat(a + b)

\* -a in floating point
FNeg(a) == IF a = NaN THEN NaN ELSE -a

\* a / n in floating point, n a positive count
FDiv(a, n) ==
    IF ~IsFinite(a) THEN a
    ELSE IF a >= 0 THEN a \div n ELSE -((-a) \div n)

\* floor(log2(n)) for n >= 1
Log2Floor(n) == CHOOSE e \in 0..n : Pow(2, e) <= n /\ n < Pow(2, e + 1)

\* the values a probability takes: 0 and the powers of two 2^-ProbBits .. 1,
\* held as numerators over 2^ProbBits
ProbValues == {0} \cup {Pow(2, e) : e \in 0..ProbBits}

\* Tensor.log() on one probability
Log(p) == IF p = 0 THEN NegInf ELSE Log2Floor(p) - ProbBits

\* sum of exp(row[c]) over the row, exact
ExpSum(row) == SumSeq([c \in 1..Len(row) |-> Pow(2, row[c])])

\* nn.functional.log_softmax(., dim=1) on one row of finite scores
log_softmax(row) == [c \in 1..Len(row) |-> row[c] - Log2Floor(ExpSum(row))]

\* the largest entry of a row of values that are not NaN
MaxOf(row) == CHOOSE m \in Range(row) : \A x \in Range(row) : x <= m

\* exp() keeps this many binary digits below its largest term; a term
\* smaller than that underflows to 0
ExpBits == 8

\* Tensor.logsumexp(dim=1) on one row: the maximum is taken out, the
\* exponentials of the differences are summed, the maximum is added back
logsumexp(row) ==
    IF NaN \in Range(row) THEN NaN
    ELSE LET m == MaxOf(row)
         IN  IF m \in {PosInf, NegInf} THEN m
             ELSE LET term(c) == IF row[c] = NegInf \/ row[c] - m < -ExpBits
                                 THEN 0 ELSE Pow(2, ExpBits + row[c] - m)
                      total == SumSeq([c \in 1..Len(row) |-> term(c)])
                  IN  FAdd(m, Log2Floor(total) - ExpBits)

RECURSIVE FSum(_)
\* the sum of a vector, accumulated in the vector's format
FSum(v) == IF v = <<>> THEN 0 ELSE FAdd(FSum(SubSeq(v, 1, Len(v) - 1)), v[Len(v)])

\* Tensor.mean()
mean(v) == FDiv(FSum(v), Len(v))

\* [n_question][n_comb] matrices with entries in S
Matrices(S) ==
    UNION {[1..nq -> [1..nc -> S]] : nq \in 1..MaxQuestions, nc \in 1..MaxComb}

NllStart ==
    /\ doc_scores \in Matrices(0..MaxScore)
    /\ seq_probs \in Matrices(ProbValues)
    /\ Len(doc_scores) = Len(seq_probs)
    /\ Len(doc_scores[1]) = Len(seq_probs[1])
    /\ doc_logprobs = <<>>
    /\ seq_logprobs = <<>>
    /\ nll_loss = 0
    /\ nll_pc = "called"

NllIdle ==
    /\ doc_scores = <<>>
    /\ seq_probs = <<>>
    /\ doc_logprobs = <<>>
    /\ seq_logprobs = <<>>
    /\ nll_loss = 0
    /\ nll_pc = "idle"

\* lines 125-126
TakeLogs ==
    /\ nll_pc = "called"
    /\ doc_logprobs' = [q \in 1..Len(doc_scores) |-> log_softmax(doc_scores[q])]
    /\ seq_logprobs' = [q \in 1..Len(seq_probs) |->
                           [c \in 1..Len(seq_probs[q]) |-> Log(seq_probs[q][c])]]
    /\ nll_pc' = "logs"
    /\ UNCHANGED <<doc_scores, seq_probs, nll_loss,
                   emVars, stVars, trVars, oeVars, swVars>>

\* line 129: every -inf of seq_logprobs becomes torch.finfo(dtype).min
ReplaceNegInf ==
    /\ nll_pc = "logs"
    /\ seq_logprobs' = [q \in 1..Len(seq_logprobs) |->
                           [c \in 1..Len(seq_logprobs[q]) |->
                               IF seq_logprobs[q][c] = NegInf THEN -FloatMax
                               ELSE seq_logprobs[q][c]]]
    /\ nll_pc' = "replaced"
    /\ UNCHANGED <<doc_scores, seq_probs, doc_logprobs, nll_loss,
                   emVars, stVars, trVars, oeVars, swVars>>

\* lines 130-142: the reduction, and the return of its value
ReduceAndReturn ==
    /\ nll_pc = "replaced"
    /\ nll_loss' =
           FNeg(mean([q \in 1..Len(doc_logprobs) |->
                        logsumexp([c \in 1..Len(doc_logprobs[q]) |->
                            FAdd(doc_logprobs[q][c], seq_logprobs[q][c])])]))
    /\ nll_pc' = "returned"
    /\ UNCHANGED <<doc_scores, seq_probs, doc_logprobs, seq_logprobs,
                   emVars, stVars, trVars, oeVars, swVars>>

NllNext == TakeLogs \/ ReplaceNegInf \/ ReduceAndReturn

(***************************************************************************)
(* Specifications                                                          *)
(***************************************************************************)
\* exact_match on bounded strings
InitEM ==
    EMStart /\ StepIdle /\ TrainIdle /\ OnlyEvalIdle /\ SweepIdle /\ NllIdle

SpecEM == InitEM /\ [][EMNext]_vars

\* one training or validation step: extension of the batch and the scores
InitStep ==
    StepStart /\ EMIdle /\ TrainIdle /\ OnlyEvalIdle /\ SweepIdle /\ NllIdle

SpecStep == InitStep /\ [][StepNext]_vars

\* the training run of train_and_evaluate.py
Init ==
    TrainStart /\ EMIdle /\ StepIdle /\ OnlyEvalIdle /\ SweepIdle /\ NllIdle

Next == TrainNext

Spec == Init /\ [][Next]_vars

\* the same run, which does not stop between two statements: main is one
\* sequential function and each of its steps returns
FairSpec == Init /\ [][Next]_vars /\ WF_vars(Next)

\* the evaluation run of only_eval.py
InitOnlyEval ==
    OnlyEvalStart /\ EMIdle /\ StepIdle /\ TrainIdle /\ SweepIdle /\ NllIdle

SpecOnlyEval == InitOnlyEval /\ [][OnlyEvalNext]_vars

\* the start of a launch of train_and_evaluate.py with several ranks
InitSweep ==
    SweepStart /\ EMIdle /\ StepIdle /\ TrainIdle /\ OnlyEvalIdle /\ NllIdle

SpecSweep == InitSweep /\ [][SweepNext]_vars

\* one call of calculate_nll_loss
InitNll ==
    NllStart /\ EMIdle /\ StepIdle /\ TrainIdle /\ OnlyEvalIdle /\ SweepIdle

SpecNll == InitNll /\ [][NllNext]_vars

(***************************************************************************)
(* Properties                                                              *)
(***************************************************************************)
\* documents held by an item: the entries that are not the no-document entry
DocsHeld(x) == Len(SelectSeq(x.docs, LAMBDA d : d # NoDoc))

\* number of expansions of grown[j], and the rounds they happened in
ExpansionsOf(j) == {v \in 1..Len(visits) : visits[v][1] = j}

ScoreStates == {"scored", "picked", "loss"}

\* C1: in eval mode, when every retrieval call returned exactly k ids,
\* inloop_extend_item returns 1 + k + ... + k^max_round items with
\* args.empty_doc and one fewer without it.
C1_EvalExtendedSize ==
    (st_pc = "returned" /\ mode = "eval" /\ all_exact)
        => Len(data) = GeomSum(k, max_round) - (IF empty_doc THEN 0 ELSE 1)

C1_Witness ==
    /\ st_pc = "returned" /\ mode = "eval" /\ all_exact
    /\ k = 2 /\ max_round = 2 /\ ~empty_doc
    /\ Len(data) = 6

\* C2: the candidates of one question form a tree grown round by round: an
\* item appended in round r extends an item appended in round r-1 (the root
\* for r = 0) and holds r+1 documents, and every item appended in round r-1
\* is expanded exactly once, in round r (the root only in round 0).
C2_TreeByRounds ==
    st_pc = "returned" =>
        /\ \A j \in 2..Len(grown) :
               /\ grown[grown[j].parent].rnd = grown[j].rnd - 1
               /\ DocsHeld(grown[j]) = grown[j].rnd + 1
        /\ \A j \in 1..Len(grown) :
               grown[j].rnd + 1 < max_round =>
                   /\ Cardinality(ExpansionsOf(j)) = 1
                   /\ \A v \in ExpansionsOf(j) : visits[v][2] = grown[j].rnd + 1

\* C5: in train mode, when every retrieval call returned as many ids as
\* requested, one question is extended into
\* 1 + k + ... + k^max_round - num_pos items (args.empty_doc set, so that
\* nothing else is removed).
C5_TrainExtendedSize ==
    (st_pc = "returned" /\ mode = "train" /\ all_exact /\ empty_doc)
        => Len(data) = GeomSum(k, max_round) - num_pos[q_idx]

\* C7: without args.empty_doc the size assertion of inloop_extend_item never
\* fails: exactly one item, the no-document root, is removed.
C7_SizeAssertionHolds ==
    /\ st_err # "AssertionError: num_data_before_remove"
    /\ (st_pc = "returned" /\ ~empty_doc) =>
           /\ Len(data) = Len(grown) - 1
           /\ data = Tail(grown)
           /\ IsRootItem(grown[1])

C7_Witness ==
    /\ st_pc = "returned" /\ ~empty_doc /\ ~all_exact
    /\ script = "only_eval" /\ max_round = 2
    /\ Len(data) >= 2

\* C9: on a single process, with every retrieval call returning as many ids
\* as requested, the extended batch size is n_comb * num_orig_question and
\* num_orig_question is the number of questions of the raw batch, so the
\* score matrix has one row per question.
C9_OneRowPerQuestion ==
    (num_processes = 1 /\ all_exact /\ st_pc \in ScoreStates) =>
        /\ docid_list_len = n_comb * num_orig_question
        /\ num_orig_question = Len(num_pos)
        /\ cossim_shape[1] = Len(num_pos)

\* C10: for every number of processes, retriever_cossim and lm_prob have the
\* same shape [num_orig_question, n_comb] after the all_gather, and the
\* retriever's pick is a valid column of lm_prob and index of docid_list.
C10_SameShapeAnyProcs ==
    /\ (all_exact /\ st_pc \in ScoreStates) =>
           /\ cossim_shape = lm_shape
           /\ cossim_shape = <<num_orig_question, n_comb>>
    /\ all_exact => st_err \notin {"IndexError: lm_prob", "IndexError: docid_list"}

\* the third strings used for transitivity, with their normal forms
ThirdStrings == StringsUpTo(MaxThirdLen)

ThirdForm == [h \in ThirdStrings |-> normalize_answer(h)]

\* the claimed normal form, step by step in the claimed order
ClaimedForm(s) ==
    LET lowered == lower(s)
        nopunct == remove_punc(lowered)
        noarticles == remove_articles(nopunct)
    IN  white_space_fix(noarticles)

C6_State ==
    em_pc \in {"compared", "renormalized", "swapped"} =>
        LET np == normalize_answer(prediction)
            ng == normalize_answer(ground_truth)
        IN  /\ em_result = (ClaimedForm(prediction) = ClaimedForm(ground_truth))
            /\ exact_match(prediction, prediction)
            /\ em_result = exact_match(ground_truth, prediction)
            /\ \A h \in ThirdStrings :
                   (em_result /\ ng = ThirdForm[h]) => np = ThirdForm[h]

C6_Step ==
    em_pc = "compared" => em_result' = em_result

\* C6: exact_match is equality of the normal forms (lower-cased, ASCII
\* punctuation removed, standalone a/an/the removed, white space collapsed);
\* it is reflexive, symmetric and transitive, and its value does not change
\* when an argument is replaced by its normalize_answer form or the
\* arguments are exchanged.
C6_ExactMatchEquivalence == [](C6_State) /\ [][C6_Step]_vars

C6_Witness ==
    /\ em_pc = "renormalized"
    /\ em_result = TRUE
    /\ prediction = <<>>
    /\ ground_truth = <<".", "A">>

\* C3: a training batch whose loss is NaN, +inf or -inf ends in ValueError
\* before backward and optimizer.step: no parameter update, completed_steps
\* not incremented, no evaluation and no checkpoint for that batch.
C3_NonFiniteLossAborts ==
    [][(tr_pc = "train" /\ last_loss' \in {"nan", "inf", "-inf"}) =>
           /\ tr_pc' = "error"
           /\ tr_err' = "ValueError: Loss is Nan"
           /\ backward_calls' = backward_calls
           /\ optimizer_step_calls' = optimizer_step_calls
           /\ qe_updates' = qe_updates
           /\ lm_updates' = lm_updates
           /\ completed_steps' = completed_steps
           /\ evals' = evals
           /\ checkpoints' = checkpoints]_vars

C3_Witness ==
    /\ tr_pc = "error"
    /\ last_loss = "-inf"
    /\ backward_calls = 2
    /\ completed_steps = 2
    /\ Len(checkpoints) = 2

\* C4: the language model stays frozen: the optimizer holds query-encoder
\* parameters only, no step updates a language-model parameter, and the
\* language model is in eval mode in every state after it is loaded.
C4_LanguageModelFrozen ==
    tr_pc \notin {"start", "idle"} =>
        /\ optimizer_params \subseteq {"query_encoder"}
        /\ lm_updates = 0
        /\ lm_mode = "eval"

C4_Witness ==
    /\ tr_pc = "done"
    /\ qe_updates = 4
    /\ Len(evals) >= 3
    /\ Len(checkpoints) >= 2
    /\ qe_mode = "train"

\* the steps only_eval is to evaluate: 0, eval_steps, ... <= max_eval_steps
StepsToEvaluate == {s \in 0..max_eval_steps : s % eval_steps = 0}

\* C8: only_eval evaluates 0, eval_steps, 2*eval_steps, ... up to
\* max_eval_steps in increasing order, once each; a step s > 0 is validated
\* with the state of checkpoint-s loaded, and never when the completed_steps
\* stored in that checkpoint differs from s (the run aborts by assertion).
C8_OnlyEvalSchedule ==
    /\ \A i \in 1..Len(oe_validated) :
           /\ oe_validated[i].step = (i - 1) * eval_steps
           /\ oe_validated[i].step \in StepsToEvaluate
           /\ oe_validated[i].loaded = oe_validated[i].step
           /\ oe_validated[i].step > 0 =>
                  ckpt_files[oe_validated[i].step] = oe_validated[i].step
    /\ oe_pc = "done" =>
           {oe_validated[i].step : i \in 1..Len(oe_validated)} = StepsToEvaluate
    /\ oe_err = "AssertionError: loaded_completed_steps" =>
           /\ oe_pc = "error"
           /\ Len(oe_validated) = oe_completed_steps \div eval_steps

C8_Witness ==
    /\ oe_pc = "done"
    /\ eval_steps = 2
    /\ max_eval_steps = 4
    /\ Len(oe_validated) = 3
    /\ oe_loaded = 4

\* C11: only the best model is saved to disk: after an evaluation inside the
\* training loop a checkpoint file is written only if that evaluation's exact
\* match strictly exceeds the best exact match seen so far.
C11_OnlyBestSaved ==
    [][checkpoints' # checkpoints =>
           checkpoints'[Len(checkpoints')].em > best_em]_vars

\* the run has passed the branch of line 816 without an error
InTraining == tr_pc \in {"train", "finished", "done"} \/ last_loss # "none"

\* the completed_steps values at which validate has been invoked
EvalSteps == {evals[i].step : i \in 1..Len(evals)}

C12_State ==
    InTraining =>
        /\ \A i \in 1..Len(evals) : \A j \in 1..Len(evals) :
               i < j => evals[i].step < evals[j].step
        /\ \A s \in 1..completed_steps :
               s \in EvalSteps <=> (s % EVAL_STEPS = 0 \/ s = MAX_TRAIN_STEPS)
        /\ \A s \in EvalSteps : s <= completed_steps
        /\ ~resume_training => Len(evals) >= 1 /\ evals[1].step = 0

C12_Step ==
    evals' # evals =>
        /\ Len(evals') = Len(evals) + 1
        /\ IF tr_pc = "loaded"
           THEN /\ ~resume_training
                /\ evals = <<>>
                /\ backward_calls = 0
                /\ evals'[1].step = 0
           ELSE /\ tr_pc = "train"
                /\ SyncGradients(step)
                /\ completed_steps' = completed_steps + 1
                /\ evals'[Len(evals')].step = completed_steps'

\* C12: during training validate is invoked at a completed_steps value s if
\* and only if s is a positive multiple of EVAL_STEPS or s = MAX_TRAIN_STEPS,
\* at most once per value of s and only on iterations where gradients are
\* synchronised; a non-resumed run additionally validates exactly once at
\* step 0, before the first training batch.
C12_ValidateSchedule == [](C12_State) /\ [][C12_Step]_vars

C12_Witness ==
    /\ tr_pc = "done"
    /\ num_batches = 2
    /\ gradient_accumulation_steps = 2
    /\ EVAL_STEPS = 2
    /\ MAX_TRAIN_STEPS = 1
    /\ backward_calls = 2
    /\ EvalSteps = {0, 1}

\* ceil(a / b) for b > 0, by its definition: the least c with c * b >= a
Ceil(a, b) == CHOOSE c \in 0..a : c * b >= a /\ (c - 1) * b < a

C13_State ==
    (~resume_training /\ tr_pc # "start" /\ EVAL_STEPS # 0) =>
        /\ MAX_TRAIN_STEPS =
               Ceil(num_batches, gradient_accumulation_steps) * max_train_epochs
        /\ completed_steps <= MAX_TRAIN_STEPS
        /\ tr_pc \in {"finished", "done"} =>
               /\ completed_steps = MAX_TRAIN_STEPS
               /\ evals[Len(evals)].step = MAX_TRAIN_STEPS

C13_Step ==
    (~resume_training /\ tr_pc = "train") =>
        completed_steps' =
            IF tr_pc' # "error" /\ SyncGradients(step)
            THEN completed_steps + 1 ELSE completed_steps

\* C13: a non-resumed run that meets no error terminates with
\* completed_steps = MAX_TRAIN_STEPS =
\* ceil(len(train_dataloader) / gradient_accumulation_steps) * max_train_epochs;
\* completed_steps increases by exactly one per gradient synchronisation,
\* never exceeds MAX_TRAIN_STEPS, and the last validation of the run happens
\* at completed_steps = MAX_TRAIN_STEPS.
C13_TerminatesAtMaxSteps ==
    /\ [](C13_State)
    /\ [][C13_Step]_vars
    /\ (~resume_training) => <>(tr_pc = "done" \/ tr_pc = "error")

C13_Witness ==
    /\ tr_pc = "done"
    /\ ~resume_training
    /\ num_batches = 3
    /\ gradient_accumulation_steps = 2
    /\ max_train_epochs = 2
    /\ completed_steps = 4
    /\ backward_calls = 6
    /\ evals[Len(evals)].step = 4

\* C14: the checkpoint written as checkpoint-N, and the evaluation logged at
\* step N, reflect the query encoder after exactly N optimizer updates; in
\* particular the final evaluation and checkpoint at MAX_TRAIN_STEPS include
\* the last optimizer update of the run.
C14_CheckpointAfterNUpdates ==
    /\ \A i \in 1..Len(evals) : evals[i].updates = evals[i].step
    /\ \A i \in 1..Len(checkpoints) :
           checkpoints[i].updates = checkpoints[i].step
    /\ (tr_pc = "done" /\ checkpoints # <<>>) =>
           checkpoints[Len(checkpoints)].updates = qe_updates

\* C15: when resume_training is true and the resume checkpoint exists, main
\* restores the query encoder, optimizer, lr scheduler and completed_steps
\* from the checkpoint, skips the step-0 evaluation, and enters the training
\* loop with best_em defined and completed_steps equal to the checkpointed
\* value.
C15_ResumeEntersLoop ==
    [][(resume_training /\ tr_pc = "loaded") =>
           /\ tr_pc' = "train"
           /\ tr_err' = "none"
           /\ completed_steps' = resume_steps
           /\ qe_updates' = resume_steps
           /\ evals' = evals
           /\ best_em' \in ExactMatchValues]_vars

\* word w stands alone in text at position i: it is there, and neither the
\* character before it nor the one after it is a word character
StandsAlone(text, i, w) ==
    /\ i + Len(w) - 1 <= Len(text)
    /\ SubSeq(text, i, i + Len(w) - 1) = w
    /\ (i > 1 => ~IsWordChar(text[i - 1]))
    /\ (i + Len(w) <= Len(text) => ~IsWordChar(text[i + Len(w)]))

\* the shape claimed for a result of normalize_answer
NormalShape(t) ==
    /\ \A i \in 1..Len(t) : t[i] \notin Punctuation /\ t[i] # "A"
    /\ \A i \in 1..Len(t) :
           \A w \in {<<"a">>, <<"a", "n">>, <<"t", "h", "e">>} :
               ~StandsAlone(t, i, w)
    /\ t # <<>> => t[1] \notin Whitespace /\ t[Len(t)] \notin Whitespace
    /\ \A i \in 1..(Len(t) - 1) :
           ~(t[i] \in Whitespace /\ t[i + 1] \in Whitespace)

\* C17: normalize_answer is idempotent,
\* normalize_answer(normalize_answer(s)) = normalize_answer(s) for every s;
\* its result contains no ASCII punctuation, no upper-case ASCII letter, no
\* standalone word a/an/the, and no leading, trailing or repeated whitespace.
C17_NormalizeIdempotent ==
    LET t == normalize_answer(prediction)
    IN  /\ normalize_answer(t) = t
        /\ NormalShape(t)

C17_Witness ==
    /\ em_pc = "renormalized"
    /\ prediction = <<"n", " ", "n">>
    /\ ground_truth = <<"A", ".">>

\* C16: when args.sweep is true and the checkpoint directory of the
\* configured learning rate already exists, the run exits successfully
\* without training: every process of the run (for any number of processes)
\* returns before loading data or performing a training step, and no process
\* is left waiting at a collective operation or barrier.
C16_SweepExitsEveryProcess ==
    (sweep /\ ckpt_dir_exists /\ ~sw_made) =>
        \A p \in Ranks :
            /\ ~data_loaded[p]
            /\ sw_pc[p] \in {"absent", "start", "returned"}

\* log of the marginal likelihood of question q, computed from the
\* probabilities: sum over c of softmax(doc_scores)[q,c] * seq_probs[q,c]
LogMarginal(q) ==
    LET row == doc_scores[q]
        num == SumSeq([c \in 1..Len(row) |-> Pow(2, row[c]) * seq_probs[q][c]])
    IN  Log2Floor(num) - Log2Floor(ExpSum(row)) - ProbBits

\* C18: calculate_nll_loss returns the RAG marginal negative
\* log-likelihood, -mean over questions of
\* log(sum over candidates of softmax(doc_scores)[q,c] * seq_probs[q,c]),
\* and because zero answer probabilities are replaced by the smallest
\* finite float in log space the returned loss is finite (neither inf nor
\* NaN) for every input, including rows whose seq_probs are all 0.
C18_NllLossFinite ==
    nll_pc = "returned" =>
        /\ IsFinite(nll_loss)
        /\ (\A q \in 1..Len(seq_probs) : \E c \in 1..Len(seq_probs[q]) :
                seq_probs[q][c] # 0) =>
               nll_loss =
                   FNeg(mean([q \in 1..Len(seq_probs) |-> LogMarginal(q)]))

====
